---- MODULE Spec2Model ----
(***************************************************************************)
(* Model of the authentication flow of the universal web scraper:          *)
(*   auth_handler.py              AuthHandler (cookie store, login         *)
(*                                detector, handle_authentication)         *)
(*   web_scraper_universal_new.py run (browser lifecycle around the flow)  *)
(*   main_universal_new.py        the driving loop over the URLs entered   *)
(*                                                                         *)
(* Text (URLs, titles, host names) is a sequence of one-character strings, *)
(* so that lower-casing and substring tests are computed, not assumed.     *)
(***************************************************************************)
EXTENDS Integers, Sequences, FiniteSets, TLC

VARIABLES
    pc,            \* position in run / handle_authentication
    mode,          \* "run": run() drives the flow; "direct": handle_authentication called on its own
    original_url,  \* the url argument
    timeout,       \* the timeout argument of handle_authentication
    jar,           \* cookies held by the browsing context
    files,         \* cookie directory: file name -> content
    filesAtCall,   \* the cookie directory when handle_authentication was entered
    cookies_loaded,\* local of handle_authentication
    logged_in,     \* local of handle_authentication
    i,             \* wait-loop counter (remaining seconds)
    attempt,       \* verification-loop counter
    result,        \* outcome of handle_authentication: "none", "true", "false", "raised"
    raisedBy,      \* which call raised to the caller of handle_authentication ("" if none)
    initialCheck,  \* result of the initial is_logged_in ("none" before it ran)
    ticks,         \* one-second sleeps performed by the wait loop
    polls,         \* is_logged_in calls made by the wait loop
    detectedAt,    \* elapsed time (timeout - i) printed when the wait loop detects login, -1 if none
    seenSince,     \* wait loop: elapsed time since which every iteration found the page logged
                   \* in, -1 if the last one did not (and -1 before the loop and after re-navigation)
    navs,          \* page.goto calls made by handle_authentication after the initial one
    navCaught,     \* some page.goto inside handle_authentication raised and was caught
    verifyResults, \* is_logged_in results of the verification attempts, in order
    saveCalls,     \* save_cookies calls
    saveFailures,  \* save_cookies calls that raised
    fileOpens,     \* times a cookie file was opened for writing (created or truncated)
    browserOpen,   \* run: the browser is launched and not closed
    contextOpen,   \* run: the browsing context is created and not closed
    runExit,       \* run: "none", "normal", "auth_failed", "raised"
    navLog,        \* the operations on the target URL up to the first page.goto of
                   \* handle_authentication, in order
    dPage,         \* detector harness: the page handed to is_login_required / is_logged_in
    dOut,          \* detector harness: outcome of is_login_required (NoOut before the call)
    dPage2,        \* detector harness: the page as the last is_login_required of is_logged_in sees it
    dUrl,          \* detector harness: the original_url argument of is_logged_in
    lOut,          \* detector harness: outcome of is_logged_in (NoLoggedInOut before the call)
    kUrl,          \* key harness: the parts of two URLs
    kKey,          \* key harness: per URL, the derived domain key and cookie file (NoKey before)
    cCtx,          \* cookie harness: the cookies of each browsing context
    cFiles,        \* cookie harness: cookie directory, file name -> content
    cLast,         \* cookie harness: the last load_cookies / save_cookies call (NoCall before)
    mPc,           \* driving loop: position ("off" when the loop is not modelled)
    urls,          \* driving loop: the URLs entered
    mI,            \* driving loop: the index i of enumerate(urls)
    mRuns,         \* driving loop: the run calls made so far, each with its url and exit
    tA,            \* paired executions: one execution of handle_authentication
    tB             \* paired executions: the other, fed the same check and navigation outcomes

vars == <<pc, mode, original_url, timeout, jar, files, filesAtCall,
          cookies_loaded, logged_in, i, attempt, result, raisedBy, initialCheck,
          ticks, polls, detectedAt, seenSince, navs, navCaught, verifyResults, saveCalls,
          saveFailures, fileOpens, browserOpen, contextOpen, runExit, navLog, dPage,
          dOut, dPage2, dUrl, lOut, kUrl, kKey, cCtx, cFiles, cLast,
          mPc, urls, mI, mRuns, tA, tB>>

flowVars == <<pc, mode, original_url, timeout, jar, files, filesAtCall,
              cookies_loaded, logged_in, i, attempt, result, raisedBy, initialCheck,
              ticks, polls, detectedAt, seenSince, navs, navCaught, verifyResults, saveCalls,
              saveFailures, fileOpens, browserOpen, contextOpen, runExit, navLog>>

(***************************************************************************)
(* Bounds of the model.                                                    *)
(***************************************************************************)
\* handle_authentication is called directly with timeout in -1..MaxTimeout
MaxTimeout == 15
\* a page handed to the detector differs from the empty page in at most MaxMarked probes
MaxMarked == 2

(***************************************************************************)
(* Text helpers.                                                           *)
(***************************************************************************)
UpperToLower ==
    [c \in {"A","B","C","D","E","F","G","H","I","J","K","L","M",
            "N","O","P","Q","R","S","T","U","V","W","X","Y","Z"} |->
        CASE c = "A" -> "a" [] c = "B" -> "b" [] c = "C" -> "c" [] c = "D" -> "d"
          [] c = "E" -> "e" [] c = "F" -> "f" [] c = "G" -> "g" [] c = "H" -> "h"
          [] c = "I" -> "i" [] c = "J" -> "j" [] c = "K" -> "k" [] c = "L" -> "l"
          [] c = "M" -> "m" [] c = "N" -> "n" [] c = "O" -> "o" [] c = "P" -> "p"
          [] c = "Q" -> "q" [] c = "R" -> "r" [] c = "S" -> "s" [] c = "T" -> "t"
          [] c = "U" -> "u" [] c = "V" -> "v" [] c = "W" -> "w" [] c = "X" -> "x"
          [] c = "Y" -> "y" [] c = "Z" -> "z"]

\* str.lower()
Lower(s) == [k \in 1..Len(s) |-> IF s[k] \in DOMAIN UpperToLower THEN UpperToLower[s[k]] ELSE s[k]]

\* sub in s
Contains(s, sub) ==
    \E k \in 1..(Len(s) - Len(sub) + 1) : SubSeq(s, k, k + Len(sub) - 1) = sub

\* any(ind in s for ind in indicators), indicators a sequence of texts
ContainsAny(s, indicators) ==
    \E n \in 1..Len(indicators) : Contains(s, indicators[n])

(***************************************************************************)
(* is_login_required: the fixed lists of the source.                       *)
(***************************************************************************)
url_login_indicators ==
    << <<"l","o","g","i","n">>,
       <<"s","i","g","n","i","n">>,
       <<"s","i","g","n","-","i","n">>,
       <<"s","i","g","n","u","p">>,
       <<"s","i","g","n","-","u","p">>,
       <<"r","e","g","i","s","t","e","r">>,
       <<"a","u","t","h">>,
       <<"a","c","c","o","u","n","t","s">> >>

title_indicators ==
    << <<"l","o","g","i","n">>,
       <<"s","i","g","n"," ","i","n">>,
       <<"s","i","g","n"," ","u","p">>,
       <<"r","e","g","i","s","t","e","r">>,
       <<"l","o","g"," ","i","n">> >>

SignupSelector   == "text=\"Sign up for Instagram\""
UsernameSelector == "input[name=\"username\"]"
PasswordSelector == "input[type=\"password\"]"
CreateSelector   == "a:has-text(\"Create new account\")"

login_buttons ==
    << "button:has-text(\"Log in\")",
       "button:has-text(\"Sign in\")",
       "button:has-text(\"Login\")",
       "button:has-text(\"Log In\")",
       "button:has-text(\"Sign In\")",
       "a:has-text(\"Log in\")",
       "a:has-text(\"Sign in\")" >>

profile_indicators ==
    << "header img[alt*=\"profile picture\"]",
       "section:has-text(\"posts\")",
       "section:has-text(\"followers\")",
       "article",
       "div:has-text(\"Posts\")",
       "svg[aria-label=\"Home\"]",
       "svg[aria-label=\"Profile\"]" >>

fb_indicators ==
    << "a[aria-label=\"Home\"]",
       "a[aria-label=\"Profile\"]",
       "div[role=\"navigation\"]",
       "svg[aria-label=\"Notifications\"]",
       "div:has-text(\"Friends\")",
       "div[aria-label=\"Your profile\"]",
       "a[href*=\"/friends/\"]" >>

Range(f) == {f[x] : x \in DOMAIN f}

LoginSelectors ==
    {SignupSelector, UsernameSelector, PasswordSelector, CreateSelector} \cup Range(login_buttons)

Selectors == LoginSelectors \cup Range(profile_indicators) \cup Range(fb_indicators)

(***************************************************************************)
(* A page, as one evaluation observes it: page.query_selector(s) returns   *)
(* an element ("present"), returns None ("absent") or raises ("raises");   *)
(* page.url and page.title() return a text or raise.                       *)
(***************************************************************************)
Outcome == {"absent", "present", "raises"}

Text(s) == [raises |-> FALSE, val |-> s]
NoText  == [raises |-> TRUE, val |-> <<>>]

PlainUrl    == <<"h","t","t","p","s",":","/","/","a",".","c","o","m","/","x">>
LoginUrl    == <<"h","t","t","p","s",":","/","/","a",".","c","o","m","/","L","o","g","I","n">>
AccountsUrl == <<"h","t","t","p","s",":","/","/","a",".","c","o","m","/","a","c","c","o","u","n","t","s","/">>
PlainTitle  == <<"N","e","w","s">>
SignInTitle == <<"S","i","g","n"," ","I","n"," ","-"," ","A">>
LogInTitle  == <<"P","l","e","a","s","e"," ","l","o","g"," ","i","n">>

\* a page with no markup at all, a neutral URL and a neutral title
EmptyPage ==
    [sel |-> [s \in Selectors |-> "absent"], url |-> Text(PlainUrl), title |-> Text(PlainTitle)]

\* a page object that has become invalid: every access raises
InvalidPage ==
    [sel |-> [s \in Selectors |-> "raises"], url |-> NoText, title |-> NoText]

UrlChoices   == {Text(LoginUrl), Text(AccountsUrl), NoText}
TitleChoices == {Text(SignInTitle), Text(LogInTitle), NoText}

\* the pages that differ from q in one probe
OneChange(q) ==
    {[q EXCEPT !.sel[s] = o] : s \in Selectors, o \in {"present", "raises"}}
        \cup {[q EXCEPT !.url = u] : u \in UrlChoices}
        \cup {[q EXCEPT !.title = t] : t \in TitleChoices}

RECURSIVE MarkedPages(_)
MarkedPages(k) ==
    IF k = 0 THEN {EmptyPage}
    ELSE LET prev == MarkedPages(k - 1)
         IN  prev \cup UNION {OneChange(q) : q \in prev}

DetectPages == MarkedPages(MaxMarked) \cup {InvalidPage}

(***************************************************************************)
(* is_login_required(page).  Every probe sits in its own try/except, so a  *)
(* probe that raises is skipped; the outer except (return True) is reached *)
(* only by an exception outside the inner guards, and no statement outside *)
(* them can raise.  The outcome records the probes called, in order.       *)
(***************************************************************************)
UrlProbe   == "page.url"
TitleProbe == "page.title()"

\* index of the first selector of sels that query_selector finds, 0 if none
\* (for selector in sels: try: if page.query_selector(selector): return ... except: continue)
FirstPresent(p, sels) ==
    LET hits == {k \in 1..Len(sels) : p.sel[sels[k]] = "present"}
    IN  IF hits = {} THEN 0 ELSE CHOOSE k \in hits : \A j \in hits : k <= j

\* the selectors of sels that such a loop queries
Queried(p, sels) ==
    LET b == FirstPresent(p, sels)
    IN  SubSeq(sels, 1, IF b = 0 THEN Len(sels) ELSE b)

SignupPrompt(p) == p.sel[SignupSelector] = "present"

\* both query_selector calls are in one try: the second is skipped when the first raises
LoginFormQueried(p) ==
    IF p.sel[UsernameSelector] = "raises" THEN <<UsernameSelector>>
    ELSE <<UsernameSelector, PasswordSelector>>

LoginForm(p) ==
    /\ p.sel[UsernameSelector] = "present"
    /\ p.sel[PasswordSelector] = "present"

UrlIndicates(p) ==
    /\ ~p.url.raises
    /\ ContainsAny(Lower(p.url.val), url_login_indicators)

TitleIndicates(p) ==
    /\ ~p.title.raises
    /\ ContainsAny(Lower(p.title.val), title_indicators)

LoginButton(p) == FirstPresent(p, login_buttons) # 0

CreateAccountLink(p) == p.sel[CreateSelector] = "present"

LoginOut(r, t) == [called |-> TRUE, result |-> r, probes |-> t]
NoOut == [called |-> FALSE, result |-> FALSE, probes |-> <<>>]

\* is_login_required with the login form taken as present when either field is
is_login_required_EitherField(p) ==
    LET t1 == <<SignupSelector>>
        t2 == t1 \o LoginFormQueried(p)
        t3 == t2 \o <<UrlProbe>>
        t4 == t3 \o <<TitleProbe>>
        t5 == t4 \o Queried(p, login_buttons)
        t6 == t5 \o <<CreateSelector>>
    IN  IF SignupPrompt(p) THEN LoginOut(TRUE, t1)
        ELSE IF p.sel[UsernameSelector] = "present" \/ p.sel[PasswordSelector] = "present"
             THEN LoginOut(TRUE, t2)
        ELSE IF UrlIndicates(p) THEN LoginOut(TRUE, t3)
        ELSE IF TitleIndicates(p) THEN LoginOut(TRUE, t4)
        ELSE IF LoginButton(p) THEN LoginOut(TRUE, t5)
        ELSE IF CreateAccountLink(p) THEN LoginOut(TRUE, t6)
        ELSE LoginOut(FALSE, t6)

is_login_required(p) ==
    LET t1 == <<SignupSelector>>
        t2 == t1 \o LoginFormQueried(p)
        t3 == t2 \o <<UrlProbe>>
        t4 == t3 \o <<TitleProbe>>
        t5 == t4 \o Queried(p, login_buttons)
        t6 == t5 \o <<CreateSelector>>
    IN  IF SignupPrompt(p) THEN LoginOut(TRUE, t1)
        ELSE IF LoginForm(p) THEN LoginOut(TRUE, t2)
        ELSE IF UrlIndicates(p) THEN LoginOut(TRUE, t3)
        ELSE IF TitleIndicates(p) THEN LoginOut(TRUE, t4)
        ELSE IF LoginButton(p) THEN LoginOut(TRUE, t5)
        ELSE IF CreateAccountLink(p) THEN LoginOut(TRUE, t6)
        ELSE LoginOut(FALSE, t6)

(***************************************************************************)
(* is_logged_in(page, original_url).  p1 is the page as the first          *)
(* is_login_required call and the marker probes observe it, p2 the page as *)
(* the final (generic) is_login_required call observes it.                 *)
(***************************************************************************)
InstagramDomain == <<"i","n","s","t","a","g","r","a","m",".","c","o","m">>
FacebookDomain  == <<"f","a","c","e","b","o","o","k",".","c","o","m">>

\* is_logged_in keeping the classification of its first check for the generic check
is_logged_in_Reusing(p1, p2, url) ==
    IF is_login_required(p1).result THEN FALSE
    ELSE IF Contains(url, InstagramDomain) /\ FirstPresent(p1, profile_indicators) # 0 THEN TRUE
    ELSE IF Contains(url, FacebookDomain) /\ FirstPresent(p1, fb_indicators) # 0 THEN TRUE
    ELSE ~is_login_required(p1).result

is_logged_in(p1, p2, url) ==
    IF is_login_required(p1).result THEN FALSE
    ELSE IF Contains(url, InstagramDomain) /\ FirstPresent(p1, profile_indicators) # 0 THEN TRUE
    ELSE IF Contains(url, FacebookDomain) /\ FirstPresent(p1, fb_indicators) # 0 THEN TRUE
    ELSE ~is_login_required(p2).result

\* the original_url argument: a text, or a value that is no text (None)
UrlArg(s) == [isText |-> TRUE, val |-> s]
NotAText  == [isText |-> FALSE, val |-> <<>>]

\* the probe raises on page p
ProbeRaises(p, probe) ==
    IF probe = UrlProbe THEN p.url.raises
    ELSE IF probe = TitleProbe THEN p.title.raises
    ELSE p.sel[probe] = "raises"

\* one of the probes of the sequence raises on page p
AnyRaises(p, probes) == \E k \in DOMAIN probes : ProbeRaises(p, probes[k])

\* the marker probes is_logged_in makes for url, in order
MarkersQueried(p, url) ==
    LET ig == IF Contains(url, InstagramDomain) THEN Queried(p, profile_indicators) ELSE <<>>
        hit == Contains(url, InstagramDomain) /\ FirstPresent(p, profile_indicators) # 0
        fb == IF ~hit /\ Contains(url, FacebookDomain) THEN Queried(p, fb_indicators) ELSE <<>>
    IN  ig \o fb

\* a marker loop of is_logged_in returns True
MarkersHit(p, url) ==
    \/ Contains(url, InstagramDomain) /\ FirstPresent(p, profile_indicators) # 0
    \/ Contains(url, FacebookDomain) /\ FirstPresent(p, fb_indicators) # 0

\* raised: the call raised to its caller; caught: the handler of is_logged_in that
\* returned, if one did; erred: an operation of the call raised; evals: the
\* is_login_required evaluations the call made
LoggedInOut(r, c, e, n) ==
    [called |-> TRUE, raised |-> FALSE, result |-> r, caught |-> c, erred |-> e, evals |-> n]
NoLoggedInOut ==
    [called |-> FALSE, raised |-> FALSE, result |-> FALSE, caught |-> "", erred |-> FALSE, evals |-> 0]

\* a call is_logged_in(page, original_url) with its handlers: is_login_required swallows
\* the errors of its probes, the marker probes are guarded one by one, and
\* 'instagram.com' in original_url  raises TypeError for an original_url that is no
\* text, which the outer  except Exception  turns into False
is_logged_in_call(p1, p2, u) ==
    LET first == is_login_required(p1)
        e1 == AnyRaises(p1, first.probes)
    IN  IF first.result THEN LoggedInOut(FALSE, "", e1, 1)
        ELSE IF ~u.isText THEN LoggedInOut(FALSE, "outer", TRUE, 1)
        ELSE LET e2 == e1 \/ AnyRaises(p1, MarkersQueried(p1, u.val))
             IN  IF MarkersHit(p1, u.val) THEN LoggedInOut(TRUE, "", e2, 1)
                 ELSE LoggedInOut(is_logged_in(p1, p2, u.val), "",
                                  e2 \/ AnyRaises(p2, is_login_required(p2).probes), 2)

(***************************************************************************)
(* Cookie store.                                                           *)
(***************************************************************************)
UrlA         == <<"h","t","t","p","s",":","/","/","a",".","c","o","m","/","x">>
UrlInstagram == <<"h","t","t","p","s",":","/","/","w","w","w",".","i","n","s","t","a","g","r","a","m",".","c","o","m","/","u">>

\* the target URLs of the model
Urls == {UrlA, UrlInstagram}

\* index of the first position >= from where s holds one of the characters cs, Len(s)+1 if none
FirstOf(s, cs, from) ==
    LET hits == {k \in from..Len(s) : s[k] \in cs}
    IN  IF hits = {} THEN Len(s) + 1 ELSE CHOOSE k \in hits : \A j \in hits : k <= j

\* urlparse(url).netloc: what follows "scheme://" up to the first "/", "?" or "#"
Netloc(url) ==
    LET c == FirstOf(url, {":"}, 1)
    IN  IF c + 2 <= Len(url) /\ url[c + 1] = "/" /\ url[c + 2] = "/"
        THEN SubSeq(url, c + 3, FirstOf(url, {"/", "?", "#"}, c + 3) - 1)
        ELSE <<>>

\* s.replace('www.', ''): every occurrence, left to right
RECURSIVE RemoveWww(_)
RemoveWww(s) ==
    IF s = <<>> THEN <<>>
    ELSE IF Len(s) >= 4 /\ SubSeq(s, 1, 4) = <<"w","w","w",".">> THEN RemoveWww(SubSeq(s, 5, Len(s)))
    ELSE <<Head(s)>> \o RemoveWww(Tail(s))

\* _get_domain_key(url)
get_domain_key(url) ==
    LET d == RemoveWww(Netloc(url))
    IN  SubSeq(d, 1, FirstOf(d, {":"}, 1) - 1)

WordChars ==
    {"a","b","c","d","e","f","g","h","i","j","k","l","m","n","o","p","q","r","s","t","u","v","w","x","y","z",
     "0","1","2","3","4","5","6","7","8","9","_"} \cup DOMAIN UpperToLower

CookieSuffix == <<"_","c","o","o","k","i","e","s",".","j","s","o","n">>

\* _get_cookie_file(url): re.sub(r'[^\w\.-]', '_', domain) + "_cookies.json" (inside cookie_dir)
get_cookie_file(url) ==
    LET d == get_domain_key(url)
    IN  [k \in 1..Len(d) |-> IF d[k] \in WordChars \cup {".", "-"} THEN d[k] ELSE "_"] \o CookieSuffix

CookieFiles == {get_cookie_file(u) : u \in Urls}

\* cookie_file = self._get_cookie_file(url), for each target URL
CookieFileOf == [u \in Urls |-> get_cookie_file(u)]

\* cookies the model knows: one from an earlier session, one set by the site on login,
\* one of another name
OldCookie     == [name |-> "sessionid", value |-> "old", domain |-> ".site"]
SessionCookie == [name |-> "sessionid", value |-> "new", domain |-> ".site"]
CsrfCookie    == [name |-> "csrftoken", value |-> "t", domain |-> ".site"]

\* a context holds one cookie per name and domain: adding cookies replaces the ones of
\* the same name and domain (context.add_cookies, and the site setting a cookie)
SameCookie(c, d) == c.name = d.name /\ c.domain = d.domain

AddCookies(j, cs) == {c \in j : ~\E d \in cs : SameCookie(c, d)} \cup cs

\* a cookie file: missing, a JSON array of cookies, a truncated / partly written or
\* unreadable one (open or json.load raises), or JSON that is no array of cookies
\* (context.add_cookies raises)
Missing       == [exists |-> FALSE, complete |-> FALSE, cookieList |-> FALSE, cookies |-> {}]
Written(cs)   == [exists |-> TRUE, complete |-> TRUE, cookieList |-> TRUE, cookies |-> cs]
Truncated     == [exists |-> TRUE, complete |-> FALSE, cookieList |-> FALSE, cookies |-> {}]
Foreign       == [exists |-> TRUE, complete |-> TRUE, cookieList |-> FALSE, cookies |-> {}]

\* load_cookies with every file that exists taken as loaded
LoadOutcomesUnguarded(f) ==
    IF f.exists THEN {"applied"} ELSE {"none"}

\* load_cookies(context, url): "applied" for a file json.load reads and add_cookies accepts,
\* "add_raises" for one add_cookies rejects; a missing file and a file open or json.load
\* rejects both give False
LoadOutcomes(f) ==
    IF f.exists /\ f.complete
    THEN IF f.cookieList THEN {"applied"} ELSE {"add_raises"}
    ELSE {"none"}

LoadResult(o) == o = "applied"

LoadJar(j, f, o) == IF o = "applied" THEN AddCookies(j, f.cookies) ELSE j

\* save_cookies(context, url): context.cookies() may raise, open(..., 'w') may raise, and
\* json.dump may raise after open has created or truncated the file
SaveOutcomes == {"ok", "cookies_raises", "open_raises", "dump_raises"}

SaveRaises(o) == o # "ok"

SaveOpens(o) == o \in {"ok", "dump_raises"}

\* save_cookies adding the cookies to the record the file holds
SaveFileMerging(f, j, o) ==
    CASE o = "ok" -> Written(f.cookies \cup j)
      [] o = "dump_raises" -> Truncated
      [] OTHER -> f

SaveFile(f, j, o) ==
    CASE o = "ok" -> Written(j)
      [] o = "dump_raises" -> Truncated
      [] OTHER -> f

(***************************************************************************)
(* The flow: handle_authentication, alone or inside run.                   *)
(***************************************************************************)
\* timeout=60 is what run passes
RunTimeout == 60
max_retries == 3

Timeouts == -1..MaxTimeout

\* a page showing a login form and nothing else
LoginFormPage ==
    [EmptyPage EXCEPT !.sel[UsernameSelector] = "present", !.sel[PasswordSelector] = "present"]

\* a page showing content that one of the profile indicators matches
ProfilePage == [EmptyPage EXCEPT !.sel["article"] = "present"]

\* what a check of the flow can observe on the live page.  The page belongs to the
\* environment (the site, the user typing in the browser window): every check sees it anew
AuthPages == {EmptyPage, LoginFormPage, ProfilePage, InvalidPage}

\* the results a call is_logged_in(page, url) of the flow can have, over what the two
\* is_login_required evaluations of the call can observe
LoggedInResults ==
    [u \in Urls |-> {is_logged_in(p1, p2, u) : p1 \in AuthPages, p2 \in AuthPages}]

Bool(b) == IF b THEN "true" ELSE "false"

argVars == <<mode, original_url, timeout>>
runVars == <<browserOpen, contextOpen, runExit>>
keyVars == <<kUrl, kKey>>
cookieVars == <<cCtx, cFiles, cLast>>
mainVars == <<mPc, urls, mI, mRuns>>
twinVars == <<tA, tB>>
restVars == <<keyVars, cookieVars, mainVars, twinVars>>
detVars == <<dPage, dOut, dPage2, dUrl, lOut, restVars>>
saveVars == <<files, saveCalls, saveFailures, fileOpens>>
waitVars == <<logged_in, i, ticks, polls, detectedAt, seenSince>>

FlowStart(m, u, t, f) ==
    /\ mode = m
    /\ original_url = u
    /\ timeout = t
    /\ jar = {}
    /\ files = f
    /\ filesAtCall = f
    /\ cookies_loaded = FALSE
    /\ logged_in = FALSE
    /\ i = 0
    /\ attempt = 0
    /\ result = "none"
    /\ raisedBy = ""
    /\ initialCheck = "none"
    /\ ticks = 0
    /\ polls = 0
    /\ detectedAt = -1
    /\ seenSince = -1
    /\ navs = 0
    /\ navCaught = FALSE
    /\ verifyResults = <<>>
    /\ saveCalls = 0
    /\ saveFailures = 0
    /\ fileOpens = 0
    /\ runExit = "none"
    /\ navLog = <<>>

\* the cookie directory before the flow: the file of the URL's key is missing, left by
\* an earlier session, or damaged; the other files are missing
InitialFiles(u) ==
    {[f \in CookieFiles |-> IF f = get_cookie_file(u) THEN c ELSE Missing] :
        c \in {Missing, Written({OldCookie}), Truncated, Foreign}}

\* the flow at rest
FlowIdle ==
    /\ FlowStart("idle", UrlA, 0, [f \in CookieFiles |-> Missing])
    /\ pc = "idle"
    /\ browserOpen = FALSE
    /\ contextOpen = FALSE

NoKey == [derived |-> FALSE, key |-> <<>>, file |-> <<>>]

NoCall == [op |-> "none", ctx |-> 0, url |-> <<>>, result |-> FALSE, raised |-> FALSE,
           held |-> {}, jarBefore |-> {}, fileBefore |-> Missing,
           afterSave |-> FALSE, saved |-> {}]

\* the cookie harness at rest
CookieIdle ==
    /\ cCtx = <<>>
    /\ cFiles = <<>>
    /\ cLast = NoCall

\* no paired executions
TwinIdle ==
    /\ tA = <<>>
    /\ tB = <<>>

\* the driving loop not modelled
MainIdle ==
    /\ mPc = "off"
    /\ urls = <<>>
    /\ mI = 0
    /\ mRuns = <<>>

\* the key harness at rest
KeyIdle ==
    /\ kUrl = <<>>
    /\ kKey = <<>>

\* the detector harness at rest
DetectIdle ==
    /\ dPage = EmptyPage
    /\ dOut = NoOut
    /\ dPage2 = EmptyPage
    /\ dUrl = UrlArg(UrlA)
    /\ lOut = NoLoggedInOut

Init ==
    /\ DetectIdle
    /\ KeyIdle
    /\ CookieIdle
    /\ MainIdle
    /\ TwinIdle
    /\ \E u \in Urls : \E f \in InitialFiles(u) :
        \/ /\ \E t \in Timeouts : FlowStart("direct", u, t, f)
           /\ pc = "ha_load"
           /\ browserOpen = TRUE
           /\ contextOpen = TRUE
        \/ /\ FlowStart("run", u, RunTimeout, f)
           /\ pc = "run_launch"
           /\ browserOpen = FALSE
           /\ contextOpen = FALSE

\* handle_authentication navigating first and loading the cookies afterwards
HaLoadCookiesAfterGoto ==
    /\ pc = "ha_load"
    /\ \E o \in LoadOutcomes(files[CookieFileOf[original_url]]) :
        /\ cookies_loaded' = LoadResult(o)
        /\ jar' = LoadJar(jar, files[CookieFileOf[original_url]], o)
    /\ filesAtCall' = files
    /\ navLog' = navLog \o <<"ha:page.goto", "ha:load_cookies">>
    /\ pc' = "ha_initial"
    /\ UNCHANGED <<argVars, runVars, detVars, saveVars, waitVars, attempt, result,
                   raisedBy, initialCheck, navs, navCaught, verifyResults>>

\* cookies_loaded = self.load_cookies(context, original_url)
HaLoadCookies ==
    /\ pc = "ha_load"
    /\ \E o \in LoadOutcomes(files[CookieFileOf[original_url]]) :
        /\ cookies_loaded' = LoadResult(o)
        /\ jar' = LoadJar(jar, files[CookieFileOf[original_url]], o)
    /\ filesAtCall' = files
    /\ navLog' = Append(navLog, "ha:load_cookies")
    /\ pc' = "ha_goto"
    /\ UNCHANGED <<argVars, runVars, detVars, saveVars, waitVars, attempt, result,
                   raisedBy, initialCheck, navs, navCaught, verifyResults>>

\* page.goto(original_url); time.sleep(5) -- not inside any try
HaNavigate ==
    /\ pc = "ha_goto"
    /\ \/ /\ pc' = "ha_initial"
          /\ UNCHANGED <<result, raisedBy>>
       \/ /\ pc' = "ha_return"
          /\ result' = "raised"
          /\ raisedBy' = "page.goto"
    /\ navLog' = Append(navLog, "ha:page.goto")
    /\ UNCHANGED <<argVars, runVars, detVars, saveVars, waitVars, jar, filesAtCall,
                   cookies_loaded, attempt, initialCheck, navs, navCaught, verifyResults>>

\* the initial check with its early return lost: the wait loop is entered whatever it found
HaInitialCheckFallsThrough ==
    /\ pc = "ha_initial"
    /\ \E r \in LoggedInResults[original_url] : initialCheck' = Bool(r)
    /\ logged_in' = FALSE
    /\ i' = timeout
    /\ pc' = "ha_wait"
    /\ UNCHANGED <<argVars, navLog, runVars, detVars, saveVars, jar, filesAtCall, cookies_loaded,
                   attempt, result, raisedBy, ticks, polls, detectedAt, seenSince, navs, navCaught,
                   verifyResults>>

\* if self.is_logged_in(page, original_url): return True  -- else fall into the wait loop
HaInitialCheck ==
    /\ pc = "ha_initial"
    /\ \E r \in LoggedInResults[original_url] :
            /\ initialCheck' = Bool(r)
            /\ IF r
               THEN /\ result' = "true"
                    /\ pc' = "ha_return"
                    /\ UNCHANGED <<logged_in, i>>
               ELSE /\ logged_in' = FALSE
                    /\ i' = timeout
                    /\ pc' = "ha_wait"
                    /\ UNCHANGED result
    /\ UNCHANGED <<argVars, navLog, runVars, detVars, saveVars, jar, filesAtCall, cookies_loaded,
                   attempt, raisedBy, ticks, polls, detectedAt, seenSince, navs, navCaught,
                   verifyResults>>

\* the page is logged in at elapsed time e: since when it has been so without a break
SeenSince(since, seen, e) == IF ~seen THEN -1 ELSE IF since >= 0 THEN since ELSE e

\* the wait loop checking in every iteration
HaWaitIterationPollsAlways ==
    /\ pc = "ha_wait"
    /\ i > 0
    /\ \E seen \in LoggedInResults[original_url] :
        LET check == TRUE
            r == check /\ seen
        IN  /\ polls' = IF check THEN polls + 1 ELSE polls
            /\ seenSince' = SeenSince(seenSince, seen, timeout - i)
            /\ IF r
               THEN /\ logged_in' = TRUE
                    /\ detectedAt' = timeout - i
                    /\ pc' = "ha_after_wait"
                    /\ UNCHANGED <<i, ticks>>
               ELSE /\ ticks' = ticks + 1
                    /\ i' = i - 1
                    /\ UNCHANGED <<logged_in, detectedAt, pc>>
    /\ UNCHANGED <<argVars, navLog, runVars, detVars, saveVars, jar, filesAtCall, cookies_loaded,
                   attempt, result, raisedBy, initialCheck, navs, navCaught, verifyResults>>

\* the wait loop checking only when it prints its reminder, every 9 seconds
HaWaitIterationEveryNinth ==
    /\ pc = "ha_wait"
    /\ i > 0
    /\ \E seen \in LoggedInResults[original_url] :
        LET check == i % 9 = 0
            r == check /\ seen
        IN  /\ polls' = IF check THEN polls + 1 ELSE polls
            /\ seenSince' = SeenSince(seenSince, seen, timeout - i)
            /\ IF r
               THEN /\ logged_in' = TRUE
                    /\ detectedAt' = timeout - i
                    /\ pc' = "ha_after_wait"
                    /\ UNCHANGED <<i, ticks>>
               ELSE /\ ticks' = ticks + 1
                    /\ i' = i - 1
                    /\ UNCHANGED <<logged_in, detectedAt, pc>>
    /\ UNCHANGED <<argVars, navLog, runVars, detVars, saveVars, jar, filesAtCall, cookies_loaded,
                   attempt, result, raisedBy, initialCheck, navs, navCaught, verifyResults>>

\* the wait loop with a counter that does not count down
HaWaitIterationNoCountdown ==
    /\ pc = "ha_wait"
    /\ i > 0
    /\ \E seen \in LoggedInResults[original_url] :
        LET check == i % 3 = 0
            r == check /\ seen
        IN  /\ polls' = IF check THEN polls + 1 ELSE polls
            /\ seenSince' = SeenSince(seenSince, seen, timeout - i)
            /\ IF r
               THEN /\ logged_in' = TRUE
                    /\ detectedAt' = timeout - i
                    /\ pc' = "ha_after_wait"
                    /\ UNCHANGED <<i, ticks>>
               ELSE /\ ticks' = ticks + 1
                    /\ UNCHANGED <<i, logged_in, detectedAt, pc>>
    /\ UNCHANGED <<argVars, navLog, runVars, detVars, saveVars, jar, filesAtCall, cookies_loaded,
                   attempt, result, raisedBy, initialCheck, navs, navCaught, verifyResults>>

\* the wait loop sleeping at the top of its body, before the check
HaWaitIterationSleepFirst ==
    /\ pc = "ha_wait"
    /\ i > 0
    /\ \E seen \in LoggedInResults[original_url] :
        LET check == i % 3 = 0
            r == check /\ seen
        IN  /\ polls' = IF check THEN polls + 1 ELSE polls
            /\ seenSince' = SeenSince(seenSince, seen, timeout - i)
            /\ ticks' = ticks + 1
            /\ IF r
               THEN /\ logged_in' = TRUE
                    /\ detectedAt' = timeout - i
                    /\ pc' = "ha_after_wait"
                    /\ UNCHANGED i
               ELSE /\ i' = i - 1
                    /\ UNCHANGED <<logged_in, detectedAt, pc>>
    /\ UNCHANGED <<argVars, navLog, runVars, detVars, saveVars, jar, filesAtCall, cookies_loaded,
                   attempt, result, raisedBy, initialCheck, navs, navCaught, verifyResults>>

\* one iteration of  for i in range(timeout, 0, -1)
HaWaitIteration ==
    /\ pc = "ha_wait"
    /\ i > 0
    /\ \E seen \in LoggedInResults[original_url] :
        LET check == i % 3 = 0
            r == check /\ seen
        IN  /\ polls' = IF check THEN polls + 1 ELSE polls
            /\ seenSince' = SeenSince(seenSince, seen, timeout - i)
            /\ IF r
               THEN /\ logged_in' = TRUE
                    /\ detectedAt' = timeout - i
                    /\ pc' = "ha_after_wait"
                    /\ UNCHANGED <<i, ticks>>
               ELSE /\ ticks' = ticks + 1
                    /\ i' = i - 1
                    /\ UNCHANGED <<logged_in, detectedAt, pc>>
    /\ UNCHANGED <<argVars, navLog, runVars, detVars, saveVars, jar, filesAtCall, cookies_loaded,
                   attempt, result, raisedBy, initialCheck, navs, navCaught, verifyResults>>

\* the loop bound off by one: range(timeout, 1, -1)
HaWaitExhaustedEarly ==
    /\ pc = "ha_wait"
    /\ i <= 1
    /\ pc' = "ha_after_wait"
    /\ UNCHANGED <<argVars, navLog, runVars, detVars, saveVars, waitVars, jar, filesAtCall,
                   cookies_loaded, attempt, result, raisedBy, initialCheck, navs,
                   navCaught, verifyResults>>

\* the range is exhausted
HaWaitExhausted ==
    /\ pc = "ha_wait"
    /\ i <= 0
    /\ pc' = "ha_after_wait"
    /\ UNCHANGED <<argVars, navLog, runVars, detVars, saveVars, waitVars, jar, filesAtCall,
                   cookies_loaded, attempt, result, raisedBy, initialCheck, navs,
                   navCaught, verifyResults>>

\* else: print("Login timeout. Authentication failed."); return False
HaTimeout ==
    /\ pc = "ha_after_wait"
    /\ ~logged_in
    /\ result' = "false"
    /\ pc' = "ha_return"
    /\ UNCHANGED <<argVars, navLog, runVars, detVars, saveVars, waitVars, jar, filesAtCall,
                   cookies_loaded, attempt, raisedBy, initialCheck, navs, navCaught,
                   verifyResults>>

\* if logged_in: page.goto(original_url), once more if it raised; both guarded.
\* The site may have set its session cookie by now.
HaRenavigate ==
    /\ pc = "ha_after_wait"
    /\ logged_in
    /\ \E j \in {jar, AddCookies(jar, {SessionCookie})} : jar' = j
    /\ \/ /\ navs' = navs + 1
          /\ UNCHANGED navCaught
       \/ /\ navs' = navs + 2
          /\ navCaught' = TRUE
    /\ attempt' = 0
    /\ seenSince' = -1
    /\ pc' = "ha_verify"
    /\ UNCHANGED <<argVars, navLog, runVars, detVars, saveVars, logged_in, i, ticks, polls,
                   detectedAt, filesAtCall, cookies_loaded, result, raisedBy, initialCheck,
                   verifyResults>>

\* one iteration of  for attempt in range(max_retries): the check and the save are in one
\* try whose  except Exception  only prints; then, attempts remaining, a guarded page.goto
HaVerifyAttempt ==
    /\ pc = "ha_verify"
    /\ attempt < max_retries
    /\ \E r \in LoggedInResults[original_url], o \in SaveOutcomes, navOk \in BOOLEAN :
        LET f == CookieFileOf[original_url]
            again == attempt < max_retries - 1
        IN  /\ verifyResults' = Append(verifyResults, r)
            /\ IF r
               THEN /\ saveCalls' = saveCalls + 1
                    /\ saveFailures' = IF SaveRaises(o) THEN saveFailures + 1 ELSE saveFailures
                    /\ fileOpens' = IF SaveOpens(o) THEN fileOpens + 1 ELSE fileOpens
                    /\ files' = [files EXCEPT ![f] = SaveFile(files[f], jar, o)]
               ELSE UNCHANGED saveVars
            /\ IF r /\ ~SaveRaises(o)
               THEN /\ result' = "true"
                    /\ pc' = "ha_return"
                    /\ UNCHANGED <<attempt, navs, navCaught>>
               ELSE /\ attempt' = attempt + 1
                    /\ navs' = IF again THEN navs + 1 ELSE navs
                    /\ navCaught' = (navCaught \/ (again /\ ~navOk))
                    /\ UNCHANGED <<result, pc>>
    /\ UNCHANGED <<argVars, navLog, runVars, detVars, waitVars, jar, filesAtCall, cookies_loaded,
                   raisedBy, initialCheck>>

\* the verification loop falling back on the wait phase: save and return logged_in
HaVerifyExhaustedAccepts ==
    /\ pc = "ha_verify"
    /\ attempt >= max_retries
    /\ result' = Bool(logged_in)
    /\ saveCalls' = saveCalls + 1
    /\ fileOpens' = fileOpens + 1
    /\ files' = [files EXCEPT ![CookieFileOf[original_url]] = Written(jar)]
    /\ pc' = "ha_return"
    /\ UNCHANGED <<argVars, navLog, runVars, detVars, waitVars, jar, filesAtCall, saveFailures,
                   cookies_loaded, attempt, raisedBy, initialCheck, navs, navCaught,
                   verifyResults>>

\* print("Could not verify login on target page."); return False
HaVerifyExhausted ==
    /\ pc = "ha_verify"
    /\ attempt >= max_retries
    /\ result' = "false"
    /\ pc' = "ha_return"
    /\ UNCHANGED <<argVars, navLog, runVars, detVars, saveVars, waitVars, jar, filesAtCall,
                   cookies_loaded, attempt, raisedBy, initialCheck, navs, navCaught,
                   verifyResults>>

(***************************************************************************)
(* run(playwright, url, ...): the browser lifecycle around the flow.       *)
(* There is no try/finally in run.  browser.close() also disposes of the   *)
(* contexts of the browser (Playwright), context.close() only the context. *)
(***************************************************************************)
haVars == <<cookies_loaded, logged_in, i, attempt, result, raisedBy, initialCheck, ticks,
            polls, detectedAt, seenSince, navs, navCaught, verifyResults, saveCalls, saveFailures,
            fileOpens, files, filesAtCall, jar>>

\* browser = playwright.chromium.launch(...); context = browser.new_context(...); page = context.new_page()
RunLaunch ==
    /\ pc = "run_launch"
    /\ browserOpen' = TRUE
    /\ contextOpen' = TRUE
    /\ pc' = "run_goto"
    /\ UNCHANGED <<argVars, navLog, detVars, haVars, runExit>>

\* page.goto(url); time.sleep(3)
RunNavigate ==
    /\ pc = "run_goto"
    /\ \/ /\ pc' = "ha_load"
          /\ UNCHANGED runExit
       \/ /\ pc' = "run_done"
          /\ runExit' = "raised"
    /\ navLog' = Append(navLog, "run:page.goto")
    /\ UNCHANGED <<argVars, detVars, haVars, browserOpen, contextOpen>>

\* if not auth_handler.handle_authentication(...): browser.close(); return
RunAuthFailed ==
    /\ pc = "ha_return"
    /\ mode = "run"
    /\ result = "false"
    /\ browserOpen' = FALSE
    /\ contextOpen' = FALSE
    /\ runExit' = "auth_failed"
    /\ pc' = "run_done"
    /\ UNCHANGED <<argVars, navLog, detVars, haVars>>

\* an exception leaving handle_authentication leaves run as well
RunAuthRaised ==
    /\ pc = "ha_return"
    /\ mode = "run"
    /\ result = "raised"
    /\ runExit' = "raised"
    /\ pc' = "run_done"
    /\ UNCHANGED <<argVars, navLog, detVars, haVars, browserOpen, contextOpen>>

\* page.wait_for_load_state(...) and the extraction collaborators, any of which may raise
RunExtract ==
    /\ pc = "ha_return"
    /\ mode = "run"
    /\ result = "true"
    /\ \/ /\ pc' = "run_close"
          /\ UNCHANGED runExit
       \/ /\ pc' = "run_done"
          /\ runExit' = "raised"
    /\ UNCHANGED <<argVars, navLog, detVars, haVars, browserOpen, contextOpen>>

\* context.close(); browser.close()
RunClose ==
    /\ pc = "run_close"
    /\ contextOpen' = FALSE
    /\ browserOpen' = FALSE
    /\ runExit' = "normal"
    /\ pc' = "run_done"
    /\ UNCHANGED <<argVars, navLog, detVars, haVars>>

Next ==
    \/ HaLoadCookies
    \/ HaNavigate
    \/ HaInitialCheck
    \/ HaWaitIteration
    \/ HaWaitExhausted
    \/ HaTimeout
    \/ HaRenavigate
    \/ HaVerifyAttempt
    \/ HaVerifyExhausted
    \/ RunLaunch
    \/ RunNavigate
    \/ RunAuthFailed
    \/ RunAuthRaised
    \/ RunExtract
    \/ RunClose

Spec == Init /\ [][Next]_vars

\* the program is sequential and every page operation returns or raises: a step that can
\* be taken is taken
SpecLive == Spec /\ WF_vars(Next)

(***************************************************************************)
(* The detector on its own: is_login_required applied to every page of     *)
(* DetectPages.                                                            *)
(***************************************************************************)
DetectInit ==
    /\ dPage \in DetectPages
    /\ dOut = NoOut
    /\ dPage2 = EmptyPage
    /\ dUrl = UrlArg(UrlA)
    /\ lOut = NoLoggedInOut
    /\ KeyIdle
    /\ CookieIdle
    /\ MainIdle
    /\ TwinIdle
    /\ FlowIdle

DetectLoginRequired ==
    /\ ~dOut.called
    /\ dOut' = is_login_required(dPage)
    /\ UNCHANGED <<dPage, dPage2, dUrl, lOut, restVars, flowVars>>

DetectNext == DetectLoginRequired

SpecDetect == DetectInit /\ [][DetectNext]_vars

(***************************************************************************)
(* is_logged_in on its own.                                                *)
(***************************************************************************)
UrlFacebook == <<"h","t","t","p","s",":","/","/","w","w","w",".","f","a","c","e","b","o","o","k",".","c","o","m","/","m","e">>
\* a URL of another site that mentions a platform in its query string
UrlMention  == <<"h","t","t","p","s",":","/","/","a",".","c","o","m","/","?","n","e","x","t","=","i","n","s","t","a","g","r","a","m",".","c","o","m">>

\* a profile page reached under a login URL
LoginUrlProfilePage == [ProfilePage EXCEPT !.url = Text(LoginUrl)]
\* a page where the first profile indicator raises and a later one matches
TornProfilePage ==
    [EmptyPage EXCEPT !.sel[profile_indicators[1]] = "raises", !.sel[profile_indicators[6]] = "present"]

LoggedInPages ==
    MarkedPages(MaxMarked - 1)
        \cup {LoginFormPage, ProfilePage, LoginUrlProfilePage, TornProfilePage, InvalidPage}

LoggedInUrls == {UrlArg(UrlA), UrlArg(UrlInstagram), UrlArg(UrlFacebook), UrlArg(UrlMention), NotAText}

LoggedInInit ==
    /\ dPage \in LoggedInPages
    /\ dPage2 \in AuthPages
    /\ dUrl \in LoggedInUrls
    /\ dOut = NoOut
    /\ lOut = NoLoggedInOut
    /\ KeyIdle
    /\ CookieIdle
    /\ MainIdle
    /\ TwinIdle
    /\ FlowIdle

DetectLoggedIn ==
    /\ ~lOut.called
    /\ lOut' = is_logged_in_call(dPage, dPage2, dUrl)
    /\ UNCHANGED <<dPage, dPage2, dUrl, dOut, restVars, flowVars>>

LoggedInNext == DetectLoggedIn

SpecLoggedIn == LoggedInInit /\ [][LoggedInNext]_vars

(***************************************************************************)
(* _get_domain_key and _get_cookie_file on their own: two URLs, each put   *)
(* together from a scheme, an optional "www." prefix, a host name, an      *)
(* optional port and a path with query.                                    *)
(***************************************************************************)
Schemes == {<<"h","t","t","p">>, <<"h","t","t","p","s">>}
HostA      == <<"a",".","c","o","m">>
HostUpperA == <<"A",".","c","o","m">>
HostInnerW == <<"a","w","w","w",".","b",".","c","o","m">>
Hosts == {HostA, HostUpperA, HostInnerW}
Ports == {<<>>, <<":","8","0","8","0">>}
Tails == {<<>>, <<"/","x">>, <<"/","y","?","z","=","1">>}
WwwPrefix == <<"w","w","w",".">>

UrlParts == [scheme : Schemes, www : BOOLEAN, host : Hosts, port : Ports, tail : Tails]

\* the URL text of the parts
UrlOf(u) ==
    u.scheme \o <<":","/","/">> \o (IF u.www THEN WwwPrefix ELSE <<>>) \o u.host \o u.port \o u.tail

KeyInit ==
    /\ kUrl \in [1..2 -> UrlParts]
    /\ kKey = [n \in 1..2 |-> NoKey]
    /\ DetectIdle
    /\ CookieIdle
    /\ MainIdle
    /\ TwinIdle
    /\ FlowIdle

\* cookie_file = self._get_cookie_file(url), which calls _get_domain_key(url)
KeyDerive ==
    /\ \E n \in 1..2 :
        /\ ~kKey[n].derived
        /\ kKey' = [kKey EXCEPT ![n] = [derived |-> TRUE,
                                        key |-> get_domain_key(UrlOf(kUrl[n])),
                                        file |-> get_cookie_file(UrlOf(kUrl[n]))]]
    /\ UNCHANGED <<kUrl, cookieVars, mainVars, twinVars, dPage, dOut, dPage2, dUrl, lOut, flowVars>>

KeyNext == KeyDerive

SpecKey == KeyInit /\ [][KeyNext]_vars

(***************************************************************************)
(* load_cookies and save_cookies on their own: two browsing contexts and   *)
(* the cookie files of three URLs, two of which have the same domain key.  *)
(***************************************************************************)
UrlAWww == <<"h","t","t","p",":","/","/","w","w","w",".","a",".","c","o","m",":","8","0","8","0","/","y","?","z","=","1">>

CookieUrls == {UrlA, UrlAWww, UrlInstagram}

Contexts == 1..2

\* the cookie sets a context can hold
Jars == {j \in SUBSET {OldCookie, SessionCookie, CsrfCookie} :
            \A c, d \in j : SameCookie(c, d) => c = d}

CookieInit ==
    /\ cCtx \in [Contexts -> Jars]
    /\ \E c \in {Missing, Truncated, Foreign} :
         cFiles = [f \in {get_cookie_file(u) : u \in CookieUrls} |->
                      IF f = get_cookie_file(UrlA) THEN c ELSE Missing]
    /\ cLast = NoCall
    /\ DetectIdle
    /\ KeyIdle
    /\ MainIdle
    /\ TwinIdle
    /\ FlowIdle

\* load_cookies(context, url)
CookieLoad ==
    /\ \E n \in Contexts, u \in CookieUrls :
        LET f == get_cookie_file(u)
        IN  \E o \in LoadOutcomes(cFiles[f]) :
              /\ cCtx' = [cCtx EXCEPT ![n] = LoadJar(cCtx[n], cFiles[f], o)]
              /\ cLast' = [op |-> "load", ctx |-> n, url |-> u, result |-> LoadResult(o),
                           raised |-> FALSE, held |-> {}, jarBefore |-> cCtx[n],
                           fileBefore |-> cFiles[f],
                           afterSave |-> (cLast.op = "save" /\ ~cLast.raised
                                            /\ get_cookie_file(cLast.url) = f),
                           saved |-> cLast.held]
    /\ UNCHANGED <<cFiles, keyVars, mainVars, twinVars, dPage, dOut, dPage2, dUrl, lOut, flowVars>>

\* save_cookies(context, url)
CookieSave ==
    /\ \E n \in Contexts, u \in CookieUrls, o \in SaveOutcomes :
        LET f == get_cookie_file(u)
        IN  /\ cFiles' = [cFiles EXCEPT ![f] = SaveFile(cFiles[f], cCtx[n], o)]
            /\ cLast' = [op |-> "save", ctx |-> n, url |-> u, result |-> FALSE,
                         raised |-> SaveRaises(o), held |-> cCtx[n], jarBefore |-> cCtx[n],
                         fileBefore |-> cFiles[f], afterSave |-> FALSE, saved |-> {}]
    /\ UNCHANGED <<cCtx, keyVars, mainVars, twinVars, dPage, dOut, dPage2, dUrl, lOut, flowVars>>

CookieNext ==
    \/ CookieLoad
    \/ CookieSave

SpecCookies == CookieInit /\ [][CookieNext]_vars

(***************************************************************************)
(* The driving loop of main_universal_new.py:                              *)
(*   for i, url in enumerate(urls):                                        *)
(*       with sync_playwright() as playwright: run(playwright, url, ...)   *)
(*       if i < len(urls) - 1: time.sleep(3)                               *)
(* run is taken by its exits (runExit above); nothing in the loop catches  *)
(* an exception of run.                                                    *)
(***************************************************************************)
\* at most MaxUrls URLs are entered
MaxUrls == 3

RECURSIVE UrlLists(_)
UrlLists(n) ==
    IF n = 0 THEN {<<>>}
    ELSE UrlLists(n - 1) \cup {Append(l, u) : l \in {m \in UrlLists(n - 1) : Len(m) = n - 1}, u \in Urls}

\* urls = get_multiple_urls(): at least one URL
MainInit ==
    /\ urls \in UrlLists(MaxUrls) \ {<<>>}
    /\ mI = 0
    /\ mRuns = <<>>
    /\ mPc = "run"
    /\ TwinIdle
    /\ DetectIdle
    /\ KeyIdle
    /\ CookieIdle
    /\ FlowIdle

\* run(playwright, url, True, ...) returns: after extraction, or after a failed authentication
MainRunReturns ==
    /\ mPc = "run"
    /\ \E e \in {"normal", "auth_failed"} :
         mRuns' = Append(mRuns, [url |-> urls[mI + 1], exit |-> e])
    /\ mPc' = "pause"
    /\ UNCHANGED <<urls, mI, keyVars, cookieVars, twinVars, dPage, dOut, dPage2, dUrl, lOut, flowVars>>

\* run raises: the exception leaves the with block and the for loop, and ends the program
MainRunRaises ==
    /\ mPc = "run"
    /\ mRuns' = Append(mRuns, [url |-> urls[mI + 1], exit |-> "raised"])
    /\ mPc' = "crashed"
    /\ UNCHANGED <<urls, mI, keyVars, cookieVars, twinVars, dPage, dOut, dPage2, dUrl, lOut, flowVars>>

\* if i < len(urls) - 1: time.sleep(3); then the next URL, or the end of the loop
MainPause ==
    /\ mPc = "pause"
    /\ mI' = mI + 1
    /\ mPc' = IF mI < Len(urls) - 1 THEN "run" ELSE "summary"
    /\ UNCHANGED <<urls, mRuns, keyVars, cookieVars, twinVars, dPage, dOut, dPage2, dUrl, lOut, flowVars>>

\* print(" All URLs processed successfully!") and the summary of generated files
MainSummary ==
    /\ mPc = "summary"
    /\ mPc' = "done"
    /\ UNCHANGED <<urls, mI, mRuns, keyVars, cookieVars, twinVars, dPage, dOut, dPage2, dUrl, lOut, flowVars>>

MainNext ==
    \/ MainRunReturns
    \/ MainRunRaises
    \/ MainPause
    \/ MainSummary

SpecMain == MainInit /\ [][MainNext]_vars

(***************************************************************************)
(* Two executions of handle_authentication side by side.  An execution is  *)
(* a record; each part of the function is an operator from the record and  *)
(* the outcomes observed to the next record.  ops holds the page           *)
(* operations, sleeps and saves of the last part run, notice whether       *)
(* "Saved cookies didn't work" was printed.  Both executions are given the *)
(* same outcome of every is_logged_in, page.goto and save_cookies; their   *)
(* cookie files, and so the results of load_cookies, are chosen freely.    *)
(***************************************************************************)
ExStart(t, f) ==
    [pc |-> "ha_load", timeout |-> t, file |-> f, cookies_loaded |-> FALSE, notice |-> FALSE,
     logged_in |-> FALSE, i |-> 0, attempt |-> 0, result |-> "none", ops |-> <<>>,
     ticks |-> 0, polls |-> 0, navs |-> 0, saveCalls |-> 0]

\* cookies_loaded = self.load_cookies(context, original_url)
ExLoadCookies(e, o) ==
    [e EXCEPT !.cookies_loaded = LoadResult(o), !.ops = <<"load_cookies">>, !.pc = "ha_goto"]

\* page.goto(original_url); time.sleep(5)
ExNavigate(e, ok) ==
    IF ok THEN [e EXCEPT !.ops = <<"page.goto", "sleep(5)">>, !.pc = "ha_initial"]
    ELSE [e EXCEPT !.ops = <<"page.goto">>, !.result = "raised", !.pc = "ha_return"]

\* the initial check giving up at once when the cookies that were loaded did not work
ExInitialCheckGivesUp(e, r) ==
    IF r THEN [e EXCEPT !.ops = <<"is_logged_in">>, !.result = "true", !.pc = "ha_return"]
    ELSE IF e.cookies_loaded
         THEN [e EXCEPT !.ops = <<"is_logged_in">>, !.notice = TRUE, !.result = "false",
                        !.pc = "ha_return"]
    ELSE [e EXCEPT !.ops = <<"is_logged_in">>, !.i = e.timeout, !.pc = "ha_wait"]

\* if self.is_logged_in(page, original_url): return True; else the LOGIN REQUIRED banner,
\* with  if cookies_loaded: print("Saved cookies didn't work ...")
ExInitialCheck(e, r) ==
    IF r THEN [e EXCEPT !.ops = <<"is_logged_in">>, !.result = "true", !.pc = "ha_return"]
    ELSE [e EXCEPT !.ops = <<"is_logged_in">>, !.notice = e.cookies_loaded,
                   !.logged_in = FALSE, !.i = e.timeout, !.pc = "ha_wait"]

\* one iteration of  for i in range(timeout, 0, -1)
ExWaitIteration(e, seen) ==
    LET check == e.i % 3 = 0
        polled == IF check THEN e.polls + 1 ELSE e.polls
    IN  IF check /\ seen
        THEN [e EXCEPT !.ops = <<"is_logged_in">>, !.polls = polled, !.logged_in = TRUE,
                       !.pc = "ha_after_wait"]
        ELSE [e EXCEPT !.ops = (IF check THEN <<"is_logged_in">> ELSE <<>>) \o <<"sleep(1)">>,
                       !.polls = polled, !.ticks = e.ticks + 1, !.i = e.i - 1]

\* the range is exhausted
ExWaitExhausted(e) == [e EXCEPT !.ops = <<>>, !.pc = "ha_after_wait"]

\* else: print("Login timeout. Authentication failed."); return False
ExTimeout(e) == [e EXCEPT !.ops = <<>>, !.result = "false", !.pc = "ha_return"]

\* time.sleep(2); page.goto(original_url); time.sleep(5), once more after time.sleep(3)
\* if it raised
ExRenavigate(e, ok) ==
    IF ok
    THEN [e EXCEPT !.ops = <<"sleep(2)", "page.goto", "sleep(5)">>, !.navs = e.navs + 1,
                   !.attempt = 0, !.pc = "ha_verify"]
    ELSE [e EXCEPT !.ops = <<"sleep(2)", "page.goto", "sleep(3)", "page.goto">>,
                   !.navs = e.navs + 2, !.attempt = 0, !.pc = "ha_verify"]

\* one iteration of  for attempt in range(max_retries)
ExVerifyAttempt(e, r, o) ==
    LET again == e.attempt < max_retries - 1
        tried == <<"is_logged_in">> \o (IF r THEN <<"save_cookies">> ELSE <<>>)
        saved == IF r THEN e.saveCalls + 1 ELSE e.saveCalls
    IN  IF r /\ ~SaveRaises(o)
        THEN [e EXCEPT !.ops = tried, !.saveCalls = saved, !.result = "true", !.pc = "ha_return"]
        ELSE [e EXCEPT !.ops = tried \o (IF again THEN <<"sleep(2)", "page.goto">> ELSE <<>>),
                       !.saveCalls = saved, !.attempt = e.attempt + 1,
                       !.navs = IF again THEN e.navs + 1 ELSE e.navs]

\* print("Could not verify login on target page."); return False
ExVerifyExhausted(e) == [e EXCEPT !.ops = <<>>, !.result = "false", !.pc = "ha_return"]

TwinFiles == {Missing, Written({OldCookie}), Truncated, Foreign}

TwinInit ==
    /\ \E t \in Timeouts \cup {RunTimeout}, fa \in TwinFiles, fb \in TwinFiles :
        /\ tA = ExStart(t, fa)
        /\ tB = ExStart(t, fb)
    /\ DetectIdle
    /\ KeyIdle
    /\ CookieIdle
    /\ MainIdle
    /\ FlowIdle

twinRest == <<keyVars, cookieVars, mainVars, dPage, dOut, dPage2, dUrl, lOut, flowVars>>

TwinLoadCookies ==
    /\ tA.pc = "ha_load" /\ tB.pc = "ha_load"
    /\ \E oa \in LoadOutcomes(tA.file), ob \in LoadOutcomes(tB.file) :
        /\ tA' = ExLoadCookies(tA, oa)
        /\ tB' = ExLoadCookies(tB, ob)
    /\ UNCHANGED twinRest

TwinNavigate ==
    /\ tA.pc = "ha_goto" /\ tB.pc = "ha_goto"
    /\ \E ok \in BOOLEAN :
        /\ tA' = ExNavigate(tA, ok)
        /\ tB' = ExNavigate(tB, ok)
    /\ UNCHANGED twinRest

TwinInitialCheck ==
    /\ tA.pc = "ha_initial" /\ tB.pc = "ha_initial"
    /\ \E r \in BOOLEAN :
        /\ tA' = ExInitialCheck(tA, r)
        /\ tB' = ExInitialCheck(tB, r)
    /\ UNCHANGED twinRest

TwinWaitIteration ==
    /\ tA.pc = "ha_wait" /\ tB.pc = "ha_wait"
    /\ tA.i > 0 /\ tB.i > 0
    /\ \E seen \in BOOLEAN :
        /\ tA' = ExWaitIteration(tA, seen)
        /\ tB' = ExWaitIteration(tB, seen)
    /\ UNCHANGED twinRest

TwinWaitExhausted ==
    /\ tA.pc = "ha_wait" /\ tB.pc = "ha_wait"
    /\ tA.i <= 0 /\ tB.i <= 0
    /\ tA' = ExWaitExhausted(tA)
    /\ tB' = ExWaitExhausted(tB)
    /\ UNCHANGED twinRest

TwinTimeout ==
    /\ tA.pc = "ha_after_wait" /\ tB.pc = "ha_after_wait"
    /\ ~tA.logged_in /\ ~tB.logged_in
    /\ tA' = ExTimeout(tA)
    /\ tB' = ExTimeout(tB)
    /\ UNCHANGED twinRest

TwinRenavigate ==
    /\ tA.pc = "ha_after_wait" /\ tB.pc = "ha_after_wait"
    /\ tA.logged_in /\ tB.logged_in
    /\ \E ok \in BOOLEAN :
        /\ tA' = ExRenavigate(tA, ok)
        /\ tB' = ExRenavigate(tB, ok)
    /\ UNCHANGED twinRest

TwinVerifyAttempt ==
    /\ tA.pc = "ha_verify" /\ tB.pc = "ha_verify"
    /\ tA.attempt < max_retries /\ tB.attempt < max_retries
    /\ \E r \in BOOLEAN, o \in SaveOutcomes :
        /\ tA' = ExVerifyAttempt(tA, r, o)
        /\ tB' = ExVerifyAttempt(tB, r, o)
    /\ UNCHANGED twinRest

TwinVerifyExhausted ==
    /\ tA.pc = "ha_verify" /\ tB.pc = "ha_verify"
    /\ tA.attempt >= max_retries /\ tB.attempt >= max_retries
    /\ tA' = ExVerifyExhausted(tA)
    /\ tB' = ExVerifyExhausted(tB)
    /\ UNCHANGED twinRest

TwinNext ==
    \/ TwinLoadCookies
    \/ TwinNavigate
    \/ TwinInitialCheck
    \/ TwinWaitIteration
    \/ TwinWaitExhausted
    \/ TwinTimeout
    \/ TwinRenavigate
    \/ TwinVerifyAttempt
    \/ TwinVerifyExhausted

SpecTwin == TwinInit /\ [][TwinNext]_vars

(***************************************************************************)
(* Properties.                                                             *)
(***************************************************************************)
\* handle_authentication has ended (returned or raised)
HaEnded == result # "none"

\* the cookie file of original_url's domain key is as it was when the call began
CookieFileUntouched ==
    /\ files[CookieFileOf[original_url]] = filesAtCall[CookieFileOf[original_url]]
    /\ fileOpens = 0

\* iterations of  for i in range(timeout, 0, -1)
WaitBudget == IF timeout > 0 THEN timeout ELSE 0

\* C1: a call of handle_authentication that returns False has neither created nor
\* modified the cookie file of the URL's domain key, whatever failed along the way.
C1_NoCookieWriteOnFailure == result = "false" => CookieFileUntouched

\* C2: no failure of a page.goto made inside handle_authentication reaches the caller:
\* the call never ends with the navigation error raised.
C2_NavigationNeverPropagates == ~(result = "raised" /\ raisedBy = "page.goto")

\* C3: is_login_required returns True when the page object has become invalid, so that
\* its query_selector, url and title accesses all raise.
C3_FailSafeOnInvalidPage == (dOut.called /\ dPage = InvalidPage) => dOut.result

\* C4: whenever run has ended, on any exit path, the browsing context and the browser
\* are both closed.
C4_ClosedOnEveryExit == pc = "run_done" => (~browserOpen /\ ~contextOpen)

\* C5: a save_cookies call that raised ends handle_authentication with that error
\* raised to the caller: the save was the only one, and no boolean is reported.
C5_SaveFailurePropagates ==
    saveFailures > 0 => (result = "raised" /\ raisedBy = "save_cookies" /\ saveCalls = 1)

\* C6 (scenario A): when the initial is_logged_in is True, handle_authentication has
\* returned True with the wait loop never entered (no tick, no poll), no re-navigation,
\* no verification attempt, no save_cookies call and the cookie file not rewritten.
C6_ScenarioA ==
    initialCheck = "true" =>
        /\ result = "true"
        /\ ticks = 0
        /\ polls = 0
        /\ ~logged_in
        /\ detectedAt = -1
        /\ navs = 0
        /\ verifyResults = <<>>
        /\ saveCalls = 0
        /\ CookieFileUntouched

C6_Witness ==
    /\ initialCheck = "true"
    /\ cookies_loaded
    /\ pc = "ha_return"
    /\ result = "true"

\* C7 (scenario B): when the initial check and every polling check of the wait loop were
\* False, the call has returned False after every tick of the wait budget (timeout ticks;
\* none when timeout is not positive), with no re-navigation, no verification attempt
\* and no save_cookies call.
C7_ScenarioB ==
    (HaEnded /\ initialCheck = "false" /\ ~logged_in) =>
        /\ result = "false"
        /\ ticks = WaitBudget
        /\ navs = 0
        /\ verifyResults = <<>>
        /\ saveCalls = 0
        /\ CookieFileUntouched

C7_Witness ==
    /\ result = "false"
    /\ initialCheck = "false"
    /\ ~logged_in
    /\ timeout = 9
    /\ ticks = 9
    /\ polls = 3

\* C8 (scenario C): the wait loop leaves at the first polling check that is True, having
\* slept only the elapsed seconds; a call whose first verification attempt is True has
\* returned True with save_cookies called exactly once; with timeout 15 and login
\* detected at elapsed second 6 the loop has waited at most 9 seconds.
C8_ScenarioC ==
    /\ logged_in => ticks = detectedAt
    /\ (HaEnded /\ Len(verifyResults) >= 1 /\ verifyResults[1]) =>
            (result = "true" /\ saveCalls = 1)
    /\ (HaEnded /\ timeout = 15 /\ initialCheck = "false" /\ detectedAt = 6
            /\ Len(verifyResults) >= 1 /\ verifyResults[1]) =>
            (result = "true" /\ saveCalls = 1 /\ ticks <= 9)

\* C9 (scenario D): when login was detected during the wait but all 3 verification
\* attempts were False, the call has returned False and save_cookies was never called.
C9_ScenarioD ==
    (HaEnded /\ logged_in /\ Len(verifyResults) = max_retries
        /\ \A k \in 1..max_retries : ~verifyResults[k]) =>
        /\ result = "false"
        /\ saveCalls = 0
        /\ CookieFileUntouched

C9_Witness ==
    /\ result = "false"
    /\ logged_in
    /\ verifyResults = <<FALSE, FALSE, FALSE>>
    /\ pc = "ha_return"

\* the six heuristics, stated on the page: heuristic h signals positive
Positive(p, h) ==
    CASE h = 1 -> p.sel[SignupSelector] = "present"
      [] h = 2 -> p.sel[UsernameSelector] = "present" /\ p.sel[PasswordSelector] = "present"
      [] h = 3 -> /\ ~p.url.raises
                  /\ \E n \in DOMAIN url_login_indicators :
                        Contains(Lower(p.url.val), url_login_indicators[n])
      [] h = 4 -> /\ ~p.title.raises
                  /\ \E n \in DOMAIN title_indicators :
                        Contains(Lower(p.title.val), title_indicators[n])
      [] h = 5 -> \E n \in DOMAIN login_buttons : p.sel[login_buttons[n]] = "present"
      [] h = 6 -> p.sel[CreateSelector] = "present"

\* the heuristic a probe belongs to
HeuristicOf(probe) ==
    CASE probe = SignupSelector -> 1
      [] probe \in {UsernameSelector, PasswordSelector} -> 2
      [] probe = UrlProbe -> 3
      [] probe = TitleProbe -> 4
      [] probe \in Range(login_buttons) -> 5
      [] probe = CreateSelector -> 6

\* C10: is_login_required evaluates the six heuristics in priority order, returns True at
\* the first positive one without evaluating a later one, counts a probe that raises as
\* negative for that probe only, and returns False exactly when none is positive; it is
\* True for a page with only a username and a password input, False for a page with no
\* login markup and a neutral URL and title.
C10_PriorityOrderedOr ==
    dOut.called =>
        LET pos  == {h \in 1..6 : Positive(dPage, h)}
            last == IF pos = {} THEN 6 ELSE CHOOSE h \in pos : \A g \in pos : h <= g
            seen == [k \in 1..Len(dOut.probes) |-> HeuristicOf(dOut.probes[k])]
        IN  /\ dOut.result = (pos # {})
            /\ Range(seen) = 1..last
            /\ \A k \in 1..(Len(seen) - 1) : seen[k] <= seen[k + 1]
            /\ dPage = LoginFormPage => dOut.result
            /\ dPage = EmptyPage => ~dOut.result

C10_Witness ==
    /\ dOut.called
    /\ dPage.sel[UsernameSelector] = "raises"
    /\ dPage.title = Text(SignInTitle)
    /\ dOut.result
    /\ dOut.probes = <<SignupSelector, UsernameSelector, UrlProbe, TitleProbe>>

\* C11: is_logged_in never raises; it returns False whenever the page is login-required
\* at the start of the check, and whenever an operation of the check raised.
C11_NeverRaisesFailsClosed ==
    lOut.called =>
        /\ ~lOut.raised
        /\ (\E h \in 1..6 : Positive(dPage, h)) => ~lOut.result
        /\ lOut.erred => ~lOut.result

\* the host of a URL names the platform
HostMatches(url, domain) == Contains(Netloc(url), domain)

\* a marker of the list is present on the page
MarkerPresent(p, markers) == \E n \in DOMAIN markers : p.sel[markers[n]] = "present"

\* C12: with the page not login-required at the start, the markers of a platform count
\* only when the host of original_url matches the platform's domain, and then any marker
\* present gives True; otherwise the result is  not is_login_required(page).
C12_MarkersByHost ==
    (lOut.called /\ dUrl.isText /\ ~(\E h \in 1..6 : Positive(dPage, h))) =>
        lOut.result =
            IF HostMatches(dUrl.val, InstagramDomain) /\ MarkerPresent(dPage, profile_indicators)
                THEN TRUE
            ELSE IF HostMatches(dUrl.val, FacebookDomain) /\ MarkerPresent(dPage, fb_indicators)
                THEN TRUE
            ELSE ~(\E h \in 1..6 : Positive(dPage2, h))

IsGoto(e) == e \in {"run:page.goto", "ha:page.goto"}

\* the k-th logged operation comes after a load_cookies
AfterLoad(k) == \E j \in 1..(k - 1) : navLog[j] = "ha:load_cookies"

\* C13 (as stated): no page.goto of the target URL precedes load_cookies for it.
C13_LoadBeforeAnyGoto ==
    \A k \in DOMAIN navLog : IsGoto(navLog[k]) => AfterLoad(k)

\* C13: handle_authentication loads the cookies before every page.goto it makes; the only
\* page.goto of the target URL before load_cookies is the one run makes before it calls
\* handle_authentication.
C13_LoadBeforeOwnGoto ==
    /\ \A k \in DOMAIN navLog : navLog[k] = "ha:page.goto" => AfterLoad(k)
    /\ \A k \in DOMAIN navLog : (IsGoto(navLog[k]) /\ ~AfterLoad(k)) =>
            (mode = "run" /\ k = 1 /\ navLog[k] = "run:page.goto")
    /\ navs > 0 => \E k \in DOMAIN navLog : navLog[k] = "ha:load_cookies"
    /\ (mode = "run" /\ pc \notin {"run_launch", "run_goto"}) =>
            (navLog # <<>> /\ navLog[1] = "run:page.goto")

C13_Witness == navLog = <<"run:page.goto", "ha:load_cookies", "ha:page.goto">>

\* two URLs of the same effective site: the same host name up to letter case
SameSite(u, v) == Lower(u.host) = Lower(v.host)

\* C14: the domain key is the lowercase host name without a leading "www." and without
\* the port, so two URLs of the same effective site have the same key and the same
\* cookie file, whatever their scheme, path, query, "www." prefix, port and letter case.
C14_KeyInvariant ==
    /\ \A n \in 1..2 : kKey[n].derived => kKey[n].key = Lower(kUrl[n].host)
    /\ (kKey[1].derived /\ kKey[2].derived /\ SameSite(kUrl[1], kUrl[2])) =>
            (kKey[1].key = kKey[2].key /\ kKey[1].file = kKey[2].file)

\* the (name, value, domain) triples of a set of cookies
Triples(j) == {<<c.name, c.value, c.domain>> : c \in j}

\* C15: a load_cookies into a fresh context that follows a save_cookies for a URL of the
\* same domain key returns True and gives the context exactly the triples the saving
\* context held; a save overwrites the earlier record of the key completely.
C15_RoundTrip ==
    /\ (cLast.op = "load" /\ cLast.afterSave /\ cLast.jarBefore = {}) =>
            /\ cLast.result
            /\ ~cLast.raised
            /\ Triples(cCtx[cLast.ctx]) = Triples(cLast.saved)
    /\ (cLast.op = "save" /\ ~cLast.raised) =>
            cFiles[get_cookie_file(cLast.url)] = Written(cLast.held)

\* a round trip between two URLs of one key, over a record that an earlier save had left
C15_Witness ==
    /\ cLast.op = "load"
    /\ cLast.afterSave
    /\ cLast.jarBefore = {}
    /\ cLast.url = UrlAWww
    /\ cLast.saved = {SessionCookie}
    /\ cCtx[cLast.ctx] = {SessionCookie}
    /\ cLast.result

\* C16: load_cookies returns True exactly when the file of the URL's key exists and was
\* read and injected; otherwise it returns False without raising and leaves the context's
\* cookies as they were; it never modifies the cookie file.
C16_LoadResult ==
    cLast.op = "load" =>
        LET f == cLast.fileBefore
        IN  /\ ~cLast.raised
            /\ cLast.result <=> (f.exists /\ f.complete /\ f.cookieList)
            /\ cLast.result => cCtx[cLast.ctx] = AddCookies(cLast.jarBefore, f.cookies)
            /\ ~cLast.result => cCtx[cLast.ctx] = cLast.jarBefore
            /\ cFiles[get_cookie_file(cLast.url)] = f

\* a load of a truncated file into a context that holds cookies
C16_Witness ==
    /\ cLast.op = "load"
    /\ cLast.fileBefore = Truncated
    /\ ~cLast.result
    /\ cCtx[cLast.ctx] = {OldCookie, CsrfCookie}

\* C17: the URLs are processed one after another in input order, and a failure while
\* processing one URL does not stop the loop: when the loop has ended, run was called for
\* every URL entered.
C17_LoopContinues ==
    /\ Len(mRuns) <= Len(urls)
    /\ \A k \in DOMAIN mRuns : mRuns[k].url = urls[k]
    /\ mPc \in {"done", "crashed"} => Len(mRuns) = Len(urls)

\* the state of the authentication state machine the call is in
Phase ==
    CASE result = "true" -> "AUTHENTICATED"
      [] result = "false" -> "FAILED"
      [] result = "raised" -> "RAISED"
      [] result = "none" /\ pc = "ha_load" -> "CHECKING_COOKIES"
      [] result = "none" /\ pc = "ha_goto" -> "NAVIGATING"
      [] result = "none" /\ pc = "ha_initial" -> "INITIAL_CHECK"
      [] result = "none" /\ pc = "ha_wait" -> "WAITING_FOR_LOGIN"
      [] result = "none" /\ pc = "ha_after_wait" /\ ~logged_in -> "WAITING_FOR_LOGIN"
      [] result = "none" /\ pc = "ha_after_wait" /\ logged_in -> "RENAVIGATING"
      [] result = "none" /\ pc = "ha_verify" -> "VERIFYING"
      [] OTHER -> "NOT_CALLED"

PhaseTransitions ==
    {<<"NOT_CALLED", "CHECKING_COOKIES">>,
     <<"CHECKING_COOKIES", "NAVIGATING">>,
     <<"NAVIGATING", "INITIAL_CHECK">>,
     <<"INITIAL_CHECK", "AUTHENTICATED">>,
     <<"INITIAL_CHECK", "WAITING_FOR_LOGIN">>,
     <<"WAITING_FOR_LOGIN", "RENAVIGATING">>,
     <<"WAITING_FOR_LOGIN", "FAILED">>,
     <<"RENAVIGATING", "VERIFYING">>,
     <<"VERIFYING", "AUTHENTICATED">>,
     <<"VERIFYING", "FAILED">>}

\* C18: handle_authentication moves only along the transitions of the state machine,
\* enters WAITING_FOR_LOGIN only after a failed initial check and RENAVIGATING only after
\* a successful wait, and ends in AUTHENTICATED or FAILED, after which nothing of it runs.
C18_StateMachine ==
    [][/\ Phase' # Phase => <<Phase, Phase'>> \in PhaseTransitions
       /\ (Phase' = "WAITING_FOR_LOGIN" /\ Phase # Phase') => initialCheck' = "false"
       /\ (Phase' = "RENAVIGATING" /\ Phase # Phase') => (logged_in' /\ detectedAt' >= 0)
       /\ Phase \in {"AUTHENTICATED", "FAILED"} => (Phase' = Phase /\ haVars' = haVars)
       /\ HaEnded' => Phase' \in {"AUTHENTICATED", "FAILED"}]_vars

\* C19: an iteration of the wait loop calls is_logged_in exactly when i is divisible by
\* 3; a check that returns True ends the loop at once with logged_in set, and the elapsed
\* time recorded, timeout - i, is the number of one-second sleeps made so far; any other
\* iteration sleeps one second and counts i down.
C19_PollEveryThird ==
    [][(pc = "ha_wait" /\ i > 0) =>
          /\ (i % 3 = 0) => polls' = polls + 1
          /\ (i % 3 # 0) => (polls' = polls /\ ~logged_in')
          /\ logged_in' =>
                /\ pc' = "ha_after_wait"
                /\ detectedAt' = timeout - i
                /\ detectedAt' = ticks'
                /\ ticks' = ticks
          /\ ~logged_in' =>
                /\ pc' = "ha_wait"
                /\ ticks' = ticks + 1
                /\ i' = i - 1
                /\ detectedAt' = detectedAt]_vars

\* login detected by the third poll of a 15 second wait, after 6 sleeps
C19_Witness ==
    /\ timeout = 15
    /\ logged_in
    /\ pc = "ha_after_wait"
    /\ polls = 3
    /\ ticks = 6
    /\ detectedAt = 6

\* verification attempts whose is_logged_in was False
FailedAttempts == Cardinality({k \in DOMAIN verifyResults : ~verifyResults[k]})

\* re-navigations the claim places after that many failed attempts
RenavsAfter(f) == IF f < max_retries THEN f ELSE max_retries - 1

\* C20: after a successful wait the URL is re-navigated once, or twice when the first
\* navigation failed, and verification follows in both cases; at most 3 attempts are
\* made, each calling is_logged_in once; every failed attempt but the third is followed
\* by one re-navigation; the first attempt that succeeds saves the cookies and returns
\* True, so that it is the last attempt.
C20_VerifySequence ==
    /\ Len(verifyResults) <= max_retries
    /\ (pc = "ha_verify" \/ verifyResults # <<>>) => logged_in
    /\ (pc = "ha_verify" \/ verifyResults # <<>>) =>
            navs - RenavsAfter(FailedAttempts) \in {1, 2}
    /\ \A k \in DOMAIN verifyResults :
            verifyResults[k] =>
                (k = Len(verifyResults) /\ result = "true" /\ saveCalls = 1 /\ pc # "ha_verify")
    /\ (HaEnded /\ logged_in /\ result = "false") =>
            (Len(verifyResults) = max_retries /\ FailedAttempts = max_retries)

\* what an execution does and returns: everything but its cookie file, the result of
\* load_cookies and the notice printed about it
Observable(e) == [e EXCEPT !.file = Missing, !.cookies_loaded = FALSE, !.notice = FALSE]

\* C21: two executions of handle_authentication that observe the same outcomes of every
\* is_logged_in, navigation and save, whatever load_cookies returned in each, are at the
\* same place after every part, have performed the same navigations, checks, sleeps and
\* cookie saves, and return the same boolean.
C21_LoadResultDoesNotSteer == Observable(tA) = Observable(tB)

\* two executions that differ in the result of load_cookies and both ended True after a save
C21_Witness ==
    /\ tA # <<>>
    /\ tA.cookies_loaded /\ ~tB.cookies_loaded
    /\ tA.notice /\ ~tB.notice
    /\ tA.result = "true" /\ tB.result = "true"
    /\ tA.saveCalls = 1 /\ tB.saveCalls = 1

\* the wait loop has been left, or was never needed
WaitOver == pc \in {"ha_after_wait", "ha_verify"} \/ (HaEnded /\ initialCheck = "false")

C22_Bounds ==
    /\ ticks <= WaitBudget
    /\ polls <= WaitBudget \div 3
    /\ WaitOver => (logged_in \/ ticks = WaitBudget)
    /\ Len(verifyResults) <= 3
    /\ navs <= 4

\* C22: every call of handle_authentication ends; the wait loop is left only with login
\* detected or after all its timeout ticks, having made at most timeout ticks and at most
\* floor(timeout / 3) checks, and at most 3 verification attempts and 4 navigations follow.
C22_Terminates == []C22_Bounds /\ (pc = "ha_load" ~> HaEnded)

\* a call that used the whole wait budget but one poll, two navigations to come back and
\* all three verification attempts
C22_Witness ==
    /\ HaEnded
    /\ timeout = 15
    /\ ticks = 12
    /\ polls = 5
    /\ navs = 4
    /\ Len(verifyResults) = 3

\* C23: with a timeout below 3 the wait loop makes no is_logged_in check, so a call whose
\* initial check failed never detects a login, returns False whatever the page showed
\* during the wait, and neither verifies nor saves cookies.
C23_ShortTimeoutNeverDetects ==
    timeout < 3 =>
        /\ polls = 0
        /\ ~logged_in /\ detectedAt = -1
        /\ initialCheck = "false" =>
              /\ navs = 0
              /\ verifyResults = <<>>
              /\ saveCalls = 0
              /\ CookieFileUntouched
              /\ pc \in {"ha_wait", "ha_after_wait"} \/ result = "false"

\* a 2 second wait during all of which the page was logged in, ended with False
C23_Witness ==
    /\ timeout = 2
    /\ initialCheck = "false"
    /\ ticks = 2
    /\ seenSince = 0
    /\ polls = 0
    /\ result = "false"

\* C24: with timeout >= 3, a login is detected only at an elapsed time timeout - i with i a
\* multiple of 3 between 3 and timeout; a page logged in without a break since elapsed
\* time e is detected before e + 3, and a wait that ends undetected was not logged in
\* since any e <= timeout - 3.
C24_DetectedWithinThree ==
    timeout >= 3 =>
        /\ detectedAt >= 0 =>
              /\ (timeout - detectedAt) % 3 = 0
              /\ detectedAt <= timeout - 3
        /\ (pc = "ha_after_wait" /\ logged_in) =>
              /\ seenSince >= 0
              /\ seenSince <= detectedAt
              /\ detectedAt < seenSince + 3
        /\ (pc = "ha_wait" /\ seenSince >= 0) => (timeout - (i + 1)) < seenSince + 3
        /\ (pc = "ha_after_wait" /\ ~logged_in) => (seenSince = -1 \/ seenSince > timeout - 3)

\* logged in from elapsed second 10 of 15 on, detected by the last check at second 12
C24_Witness ==
    /\ timeout = 15
    /\ pc = "ha_after_wait"
    /\ logged_in
    /\ seenSince = 10
    /\ detectedAt = 12

\* the page shows a login signal: one of the six heuristics is positive
LoginSignal(p) == \E h \in 1..6 : Positive(p, h)

\* the call reached the generic check: the first check was False and no marker loop
\* of a platform named in original_url returned
GenericPath ==
    /\ lOut.called
    /\ dUrl.isText
    /\ ~LoginSignal(dPage)
    /\ ~(Contains(dUrl.val, InstagramDomain) /\ MarkerPresent(dPage, profile_indicators))
    /\ ~(Contains(dUrl.val, FacebookDomain) /\ MarkerPresent(dPage, fb_indicators))

\* C25: on the generic path a call of is_logged_in evaluates is_login_required twice, the
\* second time on the page as it is then, and returns True exactly when both are False:
\* a page that turned login-required in between gives False.
C25_TwoFreshEvaluations ==
    GenericPath =>
        /\ lOut.evals = 2
        /\ lOut.result <=> (~LoginSignal(dPage) /\ ~LoginSignal(dPage2))
        /\ LoginSignal(dPage2) => ~lOut.result

\* the page turned into the login form between the two evaluations
C25_Witness ==
    /\ GenericPath
    /\ dPage = EmptyPage
    /\ dPage2 = LoginFormPage
    /\ dUrl = UrlArg(UrlA)
    /\ ~lOut.result
    /\ lOut.evals = 2

====
